---- MODULE Spec2Model ----
(***************************************************************************)
(* A state-machine model of the N-body solvers of src/include/solvers.cuh  *)
(* (Solution, N2n_solver, Lattice_solver and their kernels) and of the     *)
(* proliferate kernel of src/models/limb-bud_elongation.cu.                *)
(*                                                                         *)
(* Floating-point values are modelled as exact rationals <<num, den>> in  *)
(* lowest terms with den > 0.  The distance norm3df(r) is carried as its   *)
(* square d2, so that "dist < c" is "d2 < c*c".                            *)
(***************************************************************************)
EXTENDS Integers, Sequences, FiniteSets, TLC

\* ------------------------------------------------------------ bounds
\* Capacity of the point buffers (template parameter n_max), scaled down.
n_max == 3
\* Edge length of the lattice in cubes, scaled down from 50.
LATTICE_SIZE == 3
\* Threads per block of compute_tiles, scaled down from 32.
TILE_SIZE == 2
\* Number of take_step calls, and of proliferate launches, followed in one behaviour.
MaxSteps == 2
\* Threads per block of the proliferate launch, scaled down from 128.
PROLIF_BLOCK == 2

N_CUBES == LATTICE_SIZE * LATTICE_SIZE * LATTICE_SIZE

\* ------------------------------------------------------------ rationals
Abs(a) == IF a < 0 THEN -a ELSE a

RECURSIVE GCD(_, _)
GCD(a, b) == IF b = 0 THEN a ELSE GCD(b, a % b)

\* a/b in lowest terms, b # 0.
Q(a, b) ==
    LET g == GCD(Abs(a), Abs(b))
        s == IF b < 0 THEN -1 ELSE 1
    IN  <<(s * a) \div g, (s * b) \div g>>

Zero == <<0, 1>>
One == <<1, 1>>
Half == <<1, 2>>
\* What a float division by zero leaves: NaN (0/0) or an infinity (x/0).
NaN == <<0, 0>>
IsNaN(p) == p[2] = 0

\* (Whole numbers are added and multiplied directly: they are in lowest terms;
\* common factors are divided out before the products are formed.)
QAdd(p, q) ==
    IF p[2] = 1 /\ q[2] = 1 THEN <<p[1] + q[1], 1>>
    ELSE IF IsNaN(p) \/ IsNaN(q) THEN NaN
    ELSE LET g == GCD(p[2], q[2])
         IN  Q(p[1] * (q[2] \div g) + q[1] * (p[2] \div g), (p[2] \div g) * q[2])
QNeg(p) == <<-p[1], p[2]>>
QSub(p, q) ==
    IF p[2] = 1 /\ q[2] = 1 THEN <<p[1] - q[1], 1>>
    ELSE IF IsNaN(p) \/ IsNaN(q) THEN NaN
    ELSE LET g == GCD(p[2], q[2])
         IN  Q(p[1] * (q[2] \div g) - q[1] * (p[2] \div g), (p[2] \div g) * q[2])
QMul(p, q) ==
    IF p[2] = 1 /\ q[2] = 1 THEN <<p[1] * q[1], 1>>
    ELSE IF IsNaN(p) \/ IsNaN(q) THEN NaN
    ELSE LET g == GCD(Abs(p[1]), q[2])
             h == GCD(Abs(q[1]), p[2])
         IN  Q((p[1] \div g) * (q[1] \div h), (p[2] \div h) * (q[2] \div g))
QDiv(p, q) == IF IsNaN(p) \/ IsNaN(q) \/ q[1] = 0 THEN NaN ELSE Q(p[1] * q[2], p[2] * q[1])
QLt(p, q) == p[1] * q[2] < q[1] * p[2]
QLe(p, q) == p[1] * q[2] <= q[1] * p[2]
\* floor() of a rational; \div rounds towards minus infinity.
QFloor(p) == p[1] \div p[2]
QInt(k) == <<k, 1>>

\* ------------------------------------------------------------ point types
\* Pt: x, y, z and one auxiliary field w (as the w of Lb_cell).
MkPt(x, y, z, w) == [x |-> x, y |-> y, z |-> z, w |-> w]
PtZero == MkPt(Zero, Zero, Zero, Zero)
PtAdd(a, b) == MkPt(QAdd(a.x, b.x), QAdd(a.y, b.y), QAdd(a.z, b.z), QAdd(a.w, b.w))
PtSub(a, b) == MkPt(QSub(a.x, b.x), QSub(a.y, b.y), QSub(a.z, b.z), QSub(a.w, b.w))
PtScale(a, c) == MkPt(QMul(a.x, c), QMul(a.y, c), QMul(a.z, c), QMul(a.w, c))
PtDiv(a, c) == MkPt(QDiv(a.x, c), QDiv(a.y, c), QDiv(a.z, c), QDiv(a.w, c))

\* float3
MkF3(x, y, z) == [x |-> x, y |-> y, z |-> z]
F3Zero == MkF3(Zero, Zero, Zero)
F3Add(a, b) == MkF3(QAdd(a.x, b.x), QAdd(a.y, b.y), QAdd(a.z, b.z))

\* norm3df(r.x, r.y, r.z), squared.
Norm2(r) == QAdd(QMul(r.x, r.x), QAdd(QMul(r.y, r.y), QMul(r.z, r.z)))

Slots == 0 .. n_max - 1

\* An array held as a table of its values: the comparison makes TLC
\* tabulate the function once instead of re-evaluating it at every read.
Tab(f) == IF f = f THEN f ELSE f

ZeroPts == [i \in Slots |-> PtZero]
ZeroF3s == [i \in Slots |-> F3Zero]
ZeroInts == [i \in Slots |-> 0]
NoCalls == [ij \in Slots \X Slots |-> 0]

RECURSIVE SumPt(_, _)
\* thrust::reduce(d, d + n, Pt {0})
SumPt(d, n) == IF n = 0 THEN PtZero ELSE PtAdd(SumPt(d, n - 1), d[n - 1])


\* ------------------------------------------------------------ state
VARIABLES
    h_n,            \* Solution::h_n, the host's count of points
    d_n,            \* N2n_solver::d_n, the device's count of points
    d_X,            \* N2n_solver::d_X
    d_dX,           \* N2n_solver::d_dX
    d_X1,           \* N2n_solver::d_X1, the predicted state
    d_dX1,          \* N2n_solver::d_dX1
    d_old_v,        \* N2n_solver::d_old_v
    d_sum_v,        \* N2n_solver::d_sum_v
    d_nNBs,         \* N2n_solver::d_nNBs
    d_cube_id,      \* Lattice::d_cube_id
    d_cell_id,      \* Lattice::d_cell_id
    d_cube_start,   \* Lattice::d_cube_start
    was_filled,     \* history: the cubes some completed build has left non-empty
    d_cube_end,     \* Lattice::d_cube_end
    d_moore_nhood,  \* the __constant__ d_moore_nhood[27]
    pw_int,         \* the interaction function the last evaluation was instantiated with
    pw_calls,       \* how often pw_int was called for each (i, j) in the last evaluation
    nb_counts,      \* how often j was counted as a neighbour of i in the last evaluation
    gen_forces,     \* the generic-force hook passed to take_step
    gen_calls,      \* the hook's invocations in the current take_step
    mean_dX,        \* take_step's local mean_dX / mean_dX1
    X0,             \* d_X as it was when the current take_step started
    n,              \* take_step's / build_lattice's local n
    steps,          \* take_step calls completed
    pc,             \* position of the host thread
    status,         \* "ok", or "aborted" once an assertion has failed
    oob_writes,     \* indices >= n_max of d_X that a kernel has written
    w_pc,           \* proliferate: each worker's position
    w_n,            \* proliferate: each worker's local n (the atomicAdd result)
    w_writes,       \* proliferate: the slots of d_X each worker has written
    block,          \* compute_tiles: blockIdx.x of the block followed thread by thread
    shX,            \* compute_tiles: shX[k], held as the j of the d_X[j] stored in it
    t_pc,           \* compute_tiles: each thread's position
    t_tile,         \* compute_tiles: each thread's tile_start
    t_k,            \* compute_tiles: each thread's k
    t_F             \* compute_tiles: each thread's Fi

vars == <<h_n, d_n, d_X, d_dX, d_X1, d_dX1, d_old_v, d_sum_v, d_nNBs,
          d_cube_id, d_cell_id, d_cube_start, d_cube_end, was_filled, d_moore_nhood,
          pw_int, pw_calls, nb_counts, gen_forces, gen_calls, mean_dX, X0, n, steps, pc, status,
          oob_writes, w_pc, w_n, w_writes, block, shX, t_pc, t_tile, t_k, t_F>>

\* ------------------------------------------------------------ interaction functions
\* Stand-ins for the Pairwise_interaction callbacks, each a function of
\* (Xi, r, dist, i, j) with range <= 1: zero for dist > 1.
\*  "cutoff": zero for the self-pair and for dist >= 1, repulsive below.
\*  "lb":     shaped as lb_force: a source/decay term in w for the self-pair,
\*            zero for dist > r_max, repulsive when close and attractive up
\*            to and including dist = r_max, diffusion of w for dist < r_max.
\* The strengths are constants on each range of distances, so that the
\* forces stay linear in r.
PwLaws == {"cutoff", "lb"}

PwInt(law, Xi, r, d2, i, j) ==
    IF law = "cutoff"
    THEN IF i = j \/ ~QLt(d2, One) THEN PtZero
         ELSE MkPt(r.x, r.y, r.z, Zero)
    ELSE IF i = j THEN MkPt(Zero, Zero, Zero, QSub(One, Xi.w))
         ELSE IF QLt(One, d2) THEN PtZero
         ELSE LET F == IF QLt(d2, <<1, 4>>) THEN One ELSE QInt(-1)
                  D == IF QLt(d2, One) THEN One ELSE Zero
              IN  MkPt(QMul(r.x, F), QMul(r.y, F), QMul(r.z, F), QNeg(QMul(r.w, D)))

\* ------------------------------------------------------------ tiled evaluator
\* compute_tiles stores tile t in shX, synchronizes once, and reads shX[k] for
\* k = 0 .. TILE_SIZE-1.  No barrier follows the reads, so the thread owning
\* slot k may already have stored tile t+1 there while another thread of the
\* block still reads tile t: the pairs <<i, j>> of StaleCandidates are the
\* reads that this data race can turn into a read of X[j + TILE_SIZE].
StaleCandidates(nc) ==
    {ij \in (0 .. nc - 1) \X (0 .. nc - 1) :
        ij[2] + TILE_SIZE < nc /\ (ij[2] % TILE_SIZE) # (ij[1] % TILE_SIZE)}

\* The value thread i reads from shX for point j.
ShX(X, i, j, stale) == IF <<i, j>> \in stale THEN X[j + TILE_SIZE] ELSE X[j]

RECURSIVE TileLoop_le(_, _, _, _, _, _, _)
\* TileLoop with points at distance exactly 1 taken as neighbours.
TileLoop_le(law, X, old_v, i, m, stale, acc0) ==
    IF m = 0 THEN acc0
    ELSE LET acc == TileLoop_le(law, X, old_v, i, m - 1, stale, acc0)
             j == m - 1
             r == PtSub(X[i], ShX(X, i, j, stale))
             d2 == Norm2(r)
             near == QLe(d2, One)
         IN  [F |-> PtAdd(acc.F, PwInt(law, X[i], r, d2, i, j)),
              nNBs |-> IF near THEN acc.nNBs + 1 ELSE acc.nNBs,
              sum_v |-> IF near THEN F3Add(acc.sum_v, old_v[j]) ELSE acc.sum_v,
              cnt |-> IF near THEN [acc.cnt EXCEPT ![j] = @ + 1] ELSE acc.cnt]

RECURSIVE TileLoop_noself(_, _, _, _, _, _, _)
\* TileLoop with a point not counted as its own neighbour.
TileLoop_noself(law, X, old_v, i, m, stale, acc0) ==
    IF m = 0 THEN acc0
    ELSE LET acc == TileLoop_noself(law, X, old_v, i, m - 1, stale, acc0)
             j == m - 1
             r == PtSub(X[i], ShX(X, i, j, stale))
             d2 == Norm2(r)
             near == QLt(d2, One) /\ i # j
         IN  [F |-> PtAdd(acc.F, PwInt(law, X[i], r, d2, i, j)),
              nNBs |-> IF near THEN acc.nNBs + 1 ELSE acc.nNBs,
              sum_v |-> IF near THEN F3Add(acc.sum_v, old_v[j]) ELSE acc.sum_v,
              cnt |-> IF near THEN [acc.cnt EXCEPT ![j] = @ + 1] ELSE acc.cnt]

RECURSIVE TileLoop(_, _, _, _, _, _, _)
\* Thread i's loop over j = 0 .. m-1: [F, nNBs, sum_v] accumulated so far,
\* and in cnt the j that were counted as neighbours.
TileLoop(law, X, old_v, i, m, stale, acc0) ==
    IF m = 0 THEN acc0
    ELSE LET acc == TileLoop(law, X, old_v, i, m - 1, stale, acc0)
             j == m - 1
             r == PtSub(X[i], ShX(X, i, j, stale))
             d2 == Norm2(r)
             near == QLt(d2, One)
         IN  [F |-> PtAdd(acc.F, PwInt(law, X[i], r, d2, i, j)),
              nNBs |-> IF near THEN acc.nNBs + 1 ELSE acc.nNBs,
              sum_v |-> IF near THEN F3Add(acc.sum_v, old_v[j]) ELSE acc.sum_v,
              cnt |-> IF near THEN [acc.cnt EXCEPT ![j] = @ + 1] ELSE acc.cnt]

\* One launch of compute_tiles: the new d_dX, d_nNBs, d_sum_v, the calls of
\* pw_int and the neighbours counted.
compute_tiles(law, nc, X, dX, old_v, sum_v, nNBs, stale) ==
    LET res == Tab([i \in 0 .. nc - 1 |->
                   TileLoop(law, X, old_v, i, nc, stale,
                            [F |-> PtZero, nNBs |-> nNBs[i], sum_v |-> sum_v[i],
                             cnt |-> ZeroInts])])
    IN  [dX |-> Tab([i \in Slots |-> IF i < nc THEN res[i].F ELSE dX[i]]),
         nNBs |-> Tab([i \in Slots |-> IF i < nc THEN res[i].nNBs ELSE nNBs[i]]),
         sum_v |-> Tab([i \in Slots |-> IF i < nc THEN res[i].sum_v ELSE sum_v[i]]),
         calls |-> Tab([ij \in Slots \X Slots |->
                           IF ij[1] < nc /\ ij[2] < nc THEN 1 ELSE 0]),
         counted |-> Tab([ij \in Slots \X Slots |->
                           IF ij[1] < nc THEN res[ij[1]].cnt[ij[2]] ELSE 0])]


\* ------------------------------------------------------------ lattice
CUBE_SIZE == One

\* The constructor's offsets with the second loop reading h_moore_nhood[i % 3].
h_moore_nhood_mod3 ==
    LET h3 == [i \in 0 .. 2 |-> i - 1]
    IN  [i \in 0 .. 26 |->
            IF i < 3 THEN h3[i]
            ELSE IF i < 6 THEN h3[(i - 3) % 3] - LATTICE_SIZE
            ELSE IF i < 9 THEN h3[(i - 6) % 3] + LATTICE_SIZE
            ELSE IF i < 18 THEN h3[(i - 9) % 3] - LATTICE_SIZE * LATTICE_SIZE
            ELSE h3[(i - 18) % 3] + LATTICE_SIZE * LATTICE_SIZE]

\* The offsets the Lattice_solver constructor stores in d_moore_nhood.
h_moore_nhood ==
    LET h3 == [i \in 0 .. 2 |-> i - 1]
        h9 == [i \in 0 .. 8 |->
                  IF i < 3 THEN h3[i]
                  ELSE IF i < 6 THEN h3[(i - 3) % 3] - LATTICE_SIZE
                  ELSE h3[(i - 6) % 3] + LATTICE_SIZE]
    IN  [i \in 0 .. 26 |->
            IF i < 9 THEN h9[i]
            ELSE IF i < 18 THEN h9[(i - 9) % 9] - LATTICE_SIZE * LATTICE_SIZE
            ELSE h9[(i - 18) % 9] + LATTICE_SIZE * LATTICE_SIZE]

\* The id compute_cube_ids computes for a point.
CubeId(p, cube_size) ==
    (QFloor(QDiv(p.x, cube_size)) + LATTICE_SIZE \div 2)
    + (QFloor(QDiv(p.y, cube_size)) + LATTICE_SIZE \div 2) * LATTICE_SIZE
    + (QFloor(QDiv(p.z, cube_size)) + LATTICE_SIZE \div 2) * LATTICE_SIZE * LATTICE_SIZE

\* compute_cube_ids' two D_ASSERTs hold for every thread.
CubeIdsValid(nc, X, cube_size) ==
    \A i \in 0 .. nc - 1 : CubeId(X[i], cube_size) >= 0 /\ CubeId(X[i], cube_size) < N_CUBES

\* compute_cube_ids: [cube_id, cell_id].
compute_cube_ids(nc, X, cube_id, cell_id, cube_size) ==
    [cube_id |-> Tab([i \in Slots |->
                         IF i < nc THEN CubeId(X[i], cube_size) ELSE cube_id[i]]),
     cell_id |-> Tab([i \in Slots |-> IF i < nc THEN i ELSE cell_id[i]])]

\* The orders thrust::sort_by_key may leave: every permutation of 0 .. nc-1
\* that sorts the keys (the sort is not stable).
SortOrders(nc, cube_id) ==
    {p \in [0 .. nc - 1 -> 0 .. nc - 1] :
        /\ \A a, b \in 0 .. nc - 1 : a # b => p[a] # p[b]
        /\ \A a, b \in 0 .. nc - 1 : a < b => cube_id[p[a]] <= cube_id[p[b]]}

\* thrust::sort_by_key(d_cube_id, d_cube_id + n, d_cell_id) leaving order p.
sort_by_key(nc, cube_id, cell_id, p) ==
    [cube_id |-> Tab([k \in Slots |-> IF k < nc THEN cube_id[p[k]] ELSE cube_id[k]]),
     cell_id |-> Tab([k \in Slots |-> IF k < nc THEN cell_id[p[k]] ELSE cell_id[k]])]

\* compute_cube_start_and_end with the end of a cube decided as its start
\* is, by the previous entry instead of the next one.
compute_cube_start_and_end_prev(nc, cube_id, cube_start, cube_end) ==
    LET prev(i) == IF i > 0 THEN cube_id[i - 1] ELSE -1
        starts(c) == {i \in 0 .. nc - 1 : cube_id[i] = c /\ c # prev(i)}
    IN  [cube_start |-> Tab([c \in 0 .. N_CUBES - 1 |->
                                IF starts(c) = {} THEN cube_start[c]
                                ELSE CHOOSE i \in starts(c) : TRUE]),
         cube_end |-> Tab([c \in 0 .. N_CUBES - 1 |->
                              IF starts(c) = {} THEN cube_end[c]
                              ELSE CHOOSE i \in starts(c) : TRUE])]

\* compute_cube_start_and_end on arrays filled with -1 and -2.  After the
\* sort at most one thread writes each entry.
compute_cube_start_and_end(nc, cube_id, cube_start, cube_end) ==
    LET prev(i) == IF i > 0 THEN cube_id[i - 1] ELSE -1
        next(i) == IF i < nc - 1 THEN cube_id[i + 1] ELSE cube_id[i] + 1
        starts(c) == {i \in 0 .. nc - 1 : cube_id[i] = c /\ c # prev(i)}
        ends(c) == {i \in 0 .. nc - 1 : cube_id[i] = c /\ c # next(i)}
    IN  [cube_start |-> Tab([c \in 0 .. N_CUBES - 1 |->
                                IF starts(c) = {} THEN cube_start[c]
                                ELSE CHOOSE i \in starts(c) : TRUE]),
         cube_end |-> Tab([c \in 0 .. N_CUBES - 1 |->
                              IF ends(c) = {} THEN cube_end[c]
                              ELSE CHOOSE i \in ends(c) : TRUE])]

\* build_lattice without its two thrust::fill calls: compute_cube_start_and_end
\* writes into the arrays as the previous build left them.
build_lattice_nofill(nc, ids, p) ==
    LET srt == sort_by_key(nc, ids.cube_id, ids.cell_id, p)
        se == compute_cube_start_and_end(nc, srt.cube_id, d_cube_start, d_cube_end)
    IN  [cube_id |-> srt.cube_id, cell_id |-> srt.cell_id,
         cube_start |-> se.cube_start, cube_end |-> se.cube_end,
         filled |-> {c \in 0 .. N_CUBES - 1 : se.cube_start[c] <= se.cube_end[c]}]

\* Lattice_solver::build_lattice(d_X, cube_size) from the launch of
\* compute_cube_ids on, which left ids; the sort leaves order p:
\* [cube_id, cell_id, cube_start, cube_end, filled], filled the cubes left
\* with a non-empty range.
build_lattice(nc, ids, p) ==
    LET srt == sort_by_key(nc, ids.cube_id, ids.cell_id, p)
        se == compute_cube_start_and_end(nc, srt.cube_id,
                                         Tab([c \in 0 .. N_CUBES - 1 |-> -1]),
                                         Tab([c \in 0 .. N_CUBES - 1 |-> -2]))
    IN  [cube_id |-> srt.cube_id, cell_id |-> srt.cell_id,
         cube_start |-> se.cube_start, cube_end |-> se.cube_end,
         filled |-> {c \in 0 .. N_CUBES - 1 : se.cube_start[c] <= se.cube_end[c]}]

\* What a read of d_cube_start[cube], d_cube_end[cube] outside 0 .. N_CUBES-1
\* may return: whatever the memory next to the arrays holds.  Two outcomes
\* are followed, an empty range and the range of all sorted positions.
OobRanges(nc) == {<<-1, -2>>, <<0, nc - 1>>}

\* The range k = d_cube_start[cube] .. d_cube_end[cube] thread i scans for offset j.
CubeRange(cube, cube_start, cube_end, oob) ==
    IF cube \in 0 .. N_CUBES - 1 THEN cube_start[cube] .. cube_end[cube]
    ELSE oob[1] .. oob[2]

\* How often thread i's 27 scans meet the sorted position k.
Visits(i, k, cube_id, cube_start, cube_end, moore, oob) ==
    Cardinality({j \in 0 .. 26 :
        k \in CubeRange(cube_id[i] + moore[j], cube_start, cube_end, oob)})

RECURSIVE LatticeLoop(_, _, _, _, _, _, _)
\* Thread i's scans, summed over the sorted positions k = 0 .. m-1 with the
\* number of times vis[k] each is met: [F, nNBs, sum_v, calls].
LatticeLoop(law, X, old_v, cell_id, i, m, vis) ==
    IF m = 0 THEN [F |-> PtZero, nNBs |-> 0, sum_v |-> F3Zero,
                   calls |-> Tab([c \in Slots |-> 0])]
    ELSE LET acc == LatticeLoop(law, X, old_v, cell_id, i, m - 1, vis)
             k == m - 1
             Xi == X[cell_id[i]]
             r == PtSub(Xi, X[cell_id[k]])
             d2 == Norm2(r)
             f == PwInt(law, Xi, r, d2, cell_id[i], cell_id[k])
             v == old_v[cell_id[k]]
             times == IF QLt(d2, QMul(CUBE_SIZE, CUBE_SIZE)) THEN vis[k] ELSE 0
         IN  IF times = 0 THEN acc
             ELSE [F |-> PtAdd(acc.F, PtScale(f, QInt(times))),
                   nNBs |-> acc.nNBs + times,
                   sum_v |-> F3Add(acc.sum_v, MkF3(QMul(v.x, QInt(times)),
                                                   QMul(v.y, QInt(times)),
                                                   QMul(v.z, QInt(times)))),
                   calls |-> [acc.calls EXCEPT ![cell_id[k]] = @ + times]]

\* One launch of compute_lattice_pwints: the new d_dX, d_nNBs, d_sum_v and
\* the calls of pw_int.
compute_lattice_pwints(law, nc, X, dX, old_v, sum_v, nNBs, cube_id, cell_id, cube_start, cube_end, moore, oob) ==
    LET res == Tab([i \in 0 .. nc - 1 |->
                   LatticeLoop(law, X, old_v, cell_id, i, nc,
                       Tab([k \in 0 .. nc - 1 |->
                           Visits(i, k, cube_id, cube_start, cube_end, moore, oob)]))])
        \* the threads (sorted positions) that write entry c: one, d_cell_id
        \* being a permutation
        wr(c) == {i \in 0 .. nc - 1 : cell_id[i] = c}
        at(c) == CHOOSE i \in wr(c) : TRUE
    IN  [dX |-> Tab([c \in Slots |-> IF wr(c) # {} THEN res[at(c)].F ELSE dX[c]]),
         nNBs |-> Tab([c \in Slots |->
                       IF wr(c) # {} THEN nNBs[c] + res[at(c)].nNBs ELSE nNBs[c]]),
         sum_v |-> Tab([c \in Slots |->
                       IF wr(c) # {} THEN F3Add(sum_v[c], res[at(c)].sum_v) ELSE sum_v[c]]),
         calls |-> Tab([ij \in Slots \X Slots |->
                       IF wr(ij[1]) # {} THEN res[at(ij[1])].calls[ij[2]] ELSE 0]),
         \* a neighbour is counted where pw_int is called: inside dist < CUBE_SIZE
         counted |-> Tab([ij \in Slots \X Slots |->
                       IF wr(ij[1]) # {} THEN res[at(ij[1])].calls[ij[2]] ELSE 0])]


\* ------------------------------------------------------------ shared pieces

\* thrust::fill left out: the array keeps what it held.
fill_skipped(d, nc, v) == d

\* thrust::fill(d, d + nc, v)
fill(d, nc, v) == [i \in DOMAIN d |-> IF i < nc THEN v ELSE d[i]]

\* N2n_solver::get_d_n's assertion.
get_d_n_ok == d_n <= n_max

StepIdle ==
    /\ d_X1 = ZeroPts /\ d_dX1 = ZeroPts /\ gen_forces = "none" /\ gen_calls = <<>>
    /\ mean_dX = PtZero /\ X0 = ZeroPts /\ steps = 0

ProlifIdle == oob_writes = {} /\ w_pc = <<>> /\ w_n = <<>> /\ w_writes = <<>>

LatticeIdle ==
    /\ d_cube_id = ZeroInts /\ d_cell_id = ZeroInts
    /\ d_cube_start = [c \in 0 .. N_CUBES - 1 |-> 0]
    /\ d_cube_end = [c \in 0 .. N_CUBES - 1 |-> 0]
    /\ was_filled = {}
    /\ d_moore_nhood = h_moore_nhood

TilesIdle ==
    /\ block = 0 /\ shX = <<>> /\ t_pc = <<>> /\ t_tile = <<>> /\ t_k = <<>> /\ t_F = <<>>

tileVars == <<block, shX, t_pc, t_tile, t_k, t_F>>
stepVars == <<d_X1, d_dX1, gen_forces, gen_calls, mean_dX, X0, steps>>
prolifVars == <<oob_writes, w_pc, w_n, w_writes>>
latticeVars == <<d_cube_id, d_cell_id, d_cube_start, d_cube_end, was_filled>>

\* add_rhs, past its assertions.
add_rhs(nc, sum_v, nNBs, dX) ==
    Tab([i \in Slots |->
            IF i < nc
            THEN LET c == QInt(nNBs[i])
                 IN  MkPt(QAdd(dX[i].x, QDiv(sum_v[i].x, c)),
                          QAdd(dX[i].y, QDiv(sum_v[i].y, c)),
                          QAdd(dX[i].z, QDiv(sum_v[i].z, c)),
                          dX[i].w)
            ELSE dX[i]])

\* D_ASSERT(d_dX[i].x == d_dX[i].x); D_ASSERT(d_sum_v[i].x == d_sum_v[i].x);
add_rhs_ok(nc, sum_v, dX) ==
    \A i \in 0 .. nc - 1 : ~IsNaN(dX[i].x) /\ ~IsNaN(sum_v[i].x)

\* ------------------------------------------------------------ one pairwise evaluation
\* The points an evaluation starts from: a pair in one cube, pairs in
\* adjacent cubes at distance 1/2 and at distance exactly 1, a point whose x
\* has left the lattice and one whose z has.
LatticePts ==
    {MkPt(Zero, Zero, Zero, Zero), MkPt(Half, Zero, Zero, One), MkPt(One, Zero, Zero, Zero),
     MkPt(QInt(2), Zero, Zero, Zero), MkPt(Zero, Zero, QInt(2), Zero)}

\* The cube sizes build_lattice is called with: CUBE_SIZE and r_protrusion.
CubeSizes == {CUBE_SIZE, <<3, 2>>}

RECURSIVE Pow(_, _)
Pow(b, e) == IF e = 0 THEN 1 ELSE b * Pow(b, e - 1)

EvalInit ==
    /\ d_n \in 1 .. n_max
    /\ h_n = d_n
    /\ n = d_n
    /\ d_X \in [Slots -> LatticePts]
    /\ \A i \in Slots : i >= d_n => d_X[i] = PtZero
    /\ d_dX = ZeroPts
    /\ d_old_v = [j \in Slots |-> MkF3(QInt(Pow(2, j)), Zero, QInt(j))]
    /\ d_sum_v = ZeroF3s
    /\ d_nNBs = ZeroInts
    /\ pw_int = "none"
    /\ pw_calls = NoCalls
    /\ nb_counts = NoCalls
    /\ pc = "ready"
    /\ status = "ok"
    /\ LatticeIdle /\ StepIdle /\ ProlifIdle /\ TilesIdle

\* Lattice_solver::build_lattice(cube_size) called by the host.
BuildLattice(cube_size) ==
    /\ pc = "ready"
    /\ n' = d_n
    /\ IF get_d_n_ok /\ CubeIdsValid(d_n, d_X, cube_size)
       THEN LET ids == compute_cube_ids(d_n, d_X, d_cube_id, d_cell_id, cube_size)
            IN  \E p \in SortOrders(d_n, ids.cube_id) :
                LET b == build_lattice(d_n, ids, p)
                IN  /\ d_cube_id' = b.cube_id
                    /\ d_cell_id' = b.cell_id
                    /\ d_cube_start' = b.cube_start
                    /\ d_cube_end' = b.cube_end
                    /\ was_filled' = was_filled \cup b.filled
                    /\ pc' = "built"
                    /\ status' = status
       ELSE /\ status' = "aborted"
            /\ pc' = "stopped"
            /\ UNCHANGED latticeVars
    /\ UNCHANGED <<h_n, d_n, d_X, d_dX, d_old_v, d_sum_v, d_nNBs, d_moore_nhood,
                   pw_int, pw_calls, nb_counts>>
    /\ UNCHANGED stepVars /\ UNCHANGED prolifVars /\ UNCHANGED tileVars

\* The two thrust::fill calls that precede an evaluation.
FillAccumulators ==
    /\ pc = "ready"
    /\ d_nNBs' = fill(d_nNBs, n, 0)
    /\ d_sum_v' = fill(d_sum_v, n, F3Zero)
    /\ pc' = "filled"
    /\ UNCHANGED <<h_n, d_n, d_X, d_dX, d_old_v, d_moore_nhood, pw_int, pw_calls, nb_counts, n, status>>
    /\ UNCHANGED latticeVars /\ UNCHANGED stepVars /\ UNCHANGED prolifVars /\ UNCHANGED tileVars

\* N2n_solver::compute_pwints<law>: one launch of compute_tiles.
ComputePwintsTiles(law) ==
    /\ pc = "filled"
    /\ pw_int' = law
    /\ \E stale \in SUBSET StaleCandidates(n) :
          LET t == compute_tiles(law, n, d_X, d_dX, d_old_v, d_sum_v, d_nNBs, stale)
          IN  /\ d_dX' = t.dX
              /\ d_nNBs' = t.nNBs
              /\ d_sum_v' = t.sum_v
              /\ pw_calls' = t.calls
              /\ nb_counts' = t.counted
    /\ pc' = "tiles_done"
    /\ UNCHANGED <<h_n, d_n, d_X, d_old_v, d_moore_nhood, n, status>>
    /\ UNCHANGED latticeVars /\ UNCHANGED stepVars /\ UNCHANGED prolifVars /\ UNCHANGED tileVars

\* Lattice_solver::compute_pwints<law>: build_lattice(d_X) and one launch of
\* compute_lattice_pwints.
ComputePwintsLattice(law) ==
    /\ pc = "filled"
    /\ pw_int' = law
    /\ IF get_d_n_ok /\ CubeIdsValid(n, d_X, CUBE_SIZE)
       THEN LET ids == compute_cube_ids(n, d_X, d_cube_id, d_cell_id, CUBE_SIZE)
            IN  \E p \in SortOrders(n, ids.cube_id) :
                LET b == build_lattice(n, ids, p)
                IN  \E oob \in OobRanges(n) :
                LET l == compute_lattice_pwints(law, n, d_X, d_dX, d_old_v, d_sum_v,
                             d_nNBs, b.cube_id, b.cell_id, b.cube_start, b.cube_end,
                             d_moore_nhood, oob)
                IN  /\ d_cube_id' = b.cube_id
                    /\ d_cell_id' = b.cell_id
                    /\ d_cube_start' = b.cube_start
                    /\ d_cube_end' = b.cube_end
                    /\ was_filled' = was_filled \cup b.filled
                    /\ d_dX' = l.dX
                    /\ d_nNBs' = l.nNBs
                    /\ d_sum_v' = l.sum_v
                    /\ pw_calls' = l.calls
                    /\ nb_counts' = l.counted
                    /\ pc' = "lattice_done"
                    /\ status' = status
       ELSE /\ status' = "aborted"
            /\ pc' = "stopped"
            /\ UNCHANGED latticeVars
            /\ UNCHANGED <<d_dX, d_nNBs, d_sum_v, pw_calls, nb_counts>>
    /\ UNCHANGED <<h_n, d_n, d_X, d_old_v, d_moore_nhood, n>>
    /\ UNCHANGED stepVars /\ UNCHANGED prolifVars /\ UNCHANGED tileVars

\* add_rhs<<<...>>>(n, d_sum_v, d_nNBs, d_dX) after the evaluation (the
\* default no_gen_forces in between changes nothing).
EvalAddRhs ==
    /\ pc \in {"tiles_done", "lattice_done"}
    /\ IF add_rhs_ok(n, d_sum_v, d_dX)
       THEN /\ d_dX' = add_rhs(n, d_sum_v, d_nNBs, d_dX)
            /\ pc' = "rhs_done"
            /\ status' = status
       ELSE /\ status' = "aborted"
            /\ pc' = "stopped"
            /\ UNCHANGED d_dX
    /\ UNCHANGED <<h_n, d_n, d_X, d_old_v, d_sum_v, d_nNBs, d_moore_nhood,
                   pw_int, pw_calls, nb_counts, n>>
    /\ UNCHANGED latticeVars /\ UNCHANGED stepVars /\ UNCHANGED prolifVars
    /\ UNCHANGED tileVars

EvalNext ==
    \/ \E cube_size \in CubeSizes : BuildLattice(cube_size)
    \/ FillAccumulators
    \/ \E law \in PwLaws : ComputePwintsTiles(law)
    \/ \E law \in PwLaws : ComputePwintsLattice(law)
    \/ EvalAddRhs

SpecEval == EvalInit /\ [][EvalNext]_vars


\* ------------------------------------------------------------ claims on one evaluation
Live == 0 .. n - 1
Cubes == 0 .. N_CUBES - 1
NonEmptyCubes == {c \in Cubes : d_cube_start[c] <= d_cube_end[c]}
LatticeBuilt == pc \in {"built", "lattice_done"}

\* C1: after build_lattice, d_cell_id[0..n) is a permutation of the live
\* indices, the inclusive ranges [d_cube_start[c], d_cube_end[c]] of the
\* non-empty cubes are pairwise disjoint and cover exactly the sorted
\* positions 0 .. n-1, every position in cube c's range has d_cube_id = c,
\* and that is the cube id of the point sorted there: every live point is
\* in exactly one cube's range.
C1_BucketPartition ==
    LatticeBuilt =>
        /\ {d_cell_id[k] : k \in Live} = Live
        /\ \A c \in NonEmptyCubes :
              /\ 0 <= d_cube_start[c] /\ d_cube_end[c] <= n - 1
              /\ \A k \in d_cube_start[c] .. d_cube_end[c] : d_cube_id[k] = c
        /\ \A c1, c2 \in NonEmptyCubes :
              c1 # c2 => (d_cube_start[c1] .. d_cube_end[c1])
                             \cap (d_cube_start[c2] .. d_cube_end[c2]) = {}
        /\ \A k \in Live :
              Cardinality({c \in NonEmptyCubes :
                              k \in d_cube_start[c] .. d_cube_end[c]}) = 1
        /\ \E cs \in CubeSizes :
              \A k \in Live : d_cube_id[k] = CubeId(d_X[d_cell_id[k]], cs)

\* A build of three points that leaves one cube holding two points and
\* another cube holding the third.
C1_Witness ==
    /\ pc = "built" /\ n = 3
    /\ \E c1, c2 \in NonEmptyCubes :
          c1 # c2 /\ d_cube_end[c1] = d_cube_start[c1] + 1

\* The outputs of compute_tiles, free of its data race, on the state the
\* last evaluation started from (accumulators filled with zero).
TiledReference ==
    compute_tiles(pw_int, n, d_X, ZeroPts, d_old_v, fill(d_sum_v, n, F3Zero),
                  fill(d_nNBs, n, 0), {})

\* C2: for the same input state and an interaction function of range <= the
\* cube size, the lattice evaluator leaves for every live point the
\* derivative, neighbour count and neighbour velocity sum that the tiled
\* evaluator leaves.
C2_EvaluatorsAgree ==
    pc = "lattice_done" =>
        \A i \in Live :
            /\ d_dX[i] = TiledReference.dX[i]
            /\ d_nNBs[i] = TiledReference.nNBs[i]
            /\ d_sum_v[i] = TiledReference.sum_v[i]

Dist2(i, j) == Norm2(PtSub(d_X[i], d_X[j]))
\* The points within distance 1 of point i, itself among them.
Near(i) == {j \in Live : QLt(Dist2(i, j), One)}

\* C8: after an evaluation by either evaluator, for all live i # j within
\* distance 1 of each other, j has been counted exactly once for i (one
\* increment of d_nNBs[i], d_old_v[j] added once to d_sum_v[i]) and i
\* exactly once for j.
C8_NeighboursCountedOnce ==
    pc \in {"tiles_done", "lattice_done"} =>
        \A i, j \in Live :
            (i # j /\ j \in Near(i)) =>
                nb_counts[<<i, j>>] = 1 /\ nb_counts[<<j, i>>] = 1

\* C9: in one evaluation pw_int is called exactly once for every ordered
\* pair (i, j) of live points within distance 1, the self-pair included,
\* never twice for the same pair and never with an index outside 0 .. n-1.
C9_CalledOncePerPair ==
    pc \in {"tiles_done", "lattice_done"} =>
        \A i, j \in Slots :
            /\ pw_calls[<<i, j>>] <= 1
            /\ (i \in Live /\ j \in Near(i)) => pw_calls[<<i, j>>] = 1
            /\ (i \notin Live \/ j \notin Live) => pw_calls[<<i, j>>] = 0


\* ------------------------------------------------------------ compute_tiles, thread by thread
\* One block of one launch of compute_tiles<pw_int>, its TILE_SIZE threads
\* interleaved; __syncthreads() is passed when every thread of the block
\* has arrived.
Threads == 0 .. TILE_SIZE - 1
ThreadPoint(th) == block * TILE_SIZE + th

TilesInit ==
    /\ d_n \in 1 .. n_max
    /\ h_n = d_n
    /\ n = d_n
    /\ block \in 0 .. ((d_n + TILE_SIZE - 1) \div TILE_SIZE) - 1
    /\ d_X = [i \in Slots |-> IF i < d_n THEN MkPt(Q(i, 2), Zero, Zero, Zero) ELSE PtZero]
    /\ d_dX = ZeroPts
    /\ d_old_v = [j \in Slots |-> MkF3(QInt(Pow(2, j)), Zero, QInt(j))]
    /\ d_sum_v = ZeroF3s
    /\ d_nNBs = ZeroInts
    /\ pw_int \in PwLaws
    /\ pw_calls = NoCalls
    /\ nb_counts = NoCalls
    /\ shX = [k \in Threads |-> -1]
    /\ t_pc = [th \in Threads |-> "load"]
    /\ t_tile = [th \in Threads |-> 0]
    /\ t_k = [th \in Threads |-> 0]
    /\ t_F = [th \in Threads |-> PtZero]
    /\ pc = "kernel"
    /\ status = "ok"
    /\ LatticeIdle /\ StepIdle /\ ProlifIdle

tilesFrame ==
    /\ UNCHANGED <<h_n, d_n, d_X, d_old_v, d_moore_nhood, pw_int, n, pc, status, block>>
    /\ UNCHANGED latticeVars /\ UNCHANGED stepVars /\ UNCHANGED prolifVars

\* if (j < n_cells) shX[threadIdx.x] = d_X[j];
TileLoad(th) ==
    /\ t_pc[th] = "load"
    /\ LET j == t_tile[th] + th
       IN  shX' = IF j < n THEN [shX EXCEPT ![th] = j] ELSE shX
    /\ t_pc' = [t_pc EXCEPT ![th] = "sync"]
    /\ UNCHANGED <<d_dX, d_sum_v, d_nNBs, pw_calls, nb_counts, t_tile, t_k, t_F>>
    /\ tilesFrame

\* __syncthreads();
TileSync ==
    /\ \A th \in Threads : t_pc[th] = "sync"
    /\ t_pc' = [th \in Threads |-> "loop"]
    /\ t_k' = [th \in Threads |-> 0]
    /\ UNCHANGED <<d_dX, d_sum_v, d_nNBs, pw_calls, nb_counts, shX, t_tile, t_F>>
    /\ tilesFrame

\* One iteration of the loop over k: the read of shX[k] and what follows it.
TileRead(th) ==
    /\ t_pc[th] = "loop"
    /\ t_k[th] < TILE_SIZE
    /\ LET i == ThreadPoint(th)
           k == t_k[th]
           j == t_tile[th] + k
       IN  IF i < n /\ j < n
           THEN LET r == PtSub(d_X[i], d_X[shX[k]])
                    d2 == Norm2(r)
                    near == QLt(d2, One)
                IN  /\ d_nNBs' = IF near THEN [d_nNBs EXCEPT ![i] = @ + 1] ELSE d_nNBs
                    /\ d_sum_v' = IF near THEN [d_sum_v EXCEPT ![i] = F3Add(@, d_old_v[j])]
                                  ELSE d_sum_v
                    /\ t_F' = [t_F EXCEPT ![th] = PtAdd(@, PwInt(pw_int, d_X[i], r, d2, i, j))]
                    /\ pw_calls' = [pw_calls EXCEPT ![<<i, j>>] = @ + 1]
                    /\ nb_counts' = IF near THEN [nb_counts EXCEPT ![<<i, j>>] = @ + 1]
                                    ELSE nb_counts
           ELSE UNCHANGED <<d_nNBs, d_sum_v, t_F, pw_calls, nb_counts>>
    /\ t_k' = [t_k EXCEPT ![th] = @ + 1]
    /\ UNCHANGED <<d_dX, shX, t_pc, t_tile>>
    /\ tilesFrame

\* The end of the loop over k: tile_start += TILE_SIZE, and the loop test.
TileNext(th) ==
    /\ t_pc[th] = "loop"
    /\ t_k[th] = TILE_SIZE
    /\ t_tile' = [t_tile EXCEPT ![th] = @ + TILE_SIZE]
    /\ t_pc' = [t_pc EXCEPT ![th] = IF t_tile[th] + TILE_SIZE < n THEN "load" ELSE "store"]
    /\ UNCHANGED <<d_dX, d_sum_v, d_nNBs, pw_calls, nb_counts, shX, t_k, t_F>>
    /\ tilesFrame

\* if (i < n_cells) d_dX[i] = Fi;
TileStore(th) ==
    /\ t_pc[th] = "store"
    /\ LET i == ThreadPoint(th)
       IN  d_dX' = IF i < n THEN [d_dX EXCEPT ![i] = t_F[th]] ELSE d_dX
    /\ t_pc' = [t_pc EXCEPT ![th] = "done"]
    /\ UNCHANGED <<d_sum_v, d_nNBs, pw_calls, nb_counts, shX, t_tile, t_k, t_F>>
    /\ tilesFrame

TilesNext ==
    \/ \E th \in Threads : TileLoad(th)
    \/ TileSync
    \/ \E th \in Threads : TileRead(th)
    \/ \E th \in Threads : TileNext(th)
    \/ \E th \in Threads : TileStore(th)

SpecTiles == TilesInit /\ [][TilesNext]_vars

\* C7: whenever a thread is about to read shX[k] for the tile starting at
\* tile_start, the slot holds the state of point tile_start + k: it has been
\* written for this tile and not yet overwritten for the next one.
C7_ReadsCurrentTile ==
    \A th \in Threads :
        (/\ t_pc[th] = "loop" /\ t_k[th] < TILE_SIZE
         /\ ThreadPoint(th) < n /\ t_tile[th] + t_k[th] < n)
            => shX[t_k[th]] = t_tile[th] + t_k[th]


\* ------------------------------------------------------------ take_step
\* The generic forces passed to take_step: no_gen_forces, and a function
\* that adds a constant to the derivative of point 0 in x, z and w.
GenForces == {"none", "push"}

GenForce(hook, nc, X, dX) ==
    IF hook = "none" THEN dX
    ELSE [dX EXCEPT ![0] = PtAdd(@, MkPt(One, Zero, One, One))]

\* The reduction divided by the capacity n_max in place of the live count.
reduce_mean_capacity(dX, nc) == PtDiv(SumPt(dX, nc), QInt(n_max))

\* thrust::reduce(d_dX, d_dX + n, Pt {0})/n
reduce_mean(dX, nc) == PtDiv(SumPt(dX, nc), QInt(nc))

\* The subtraction of the mean in euler_step and heun_step.
SubMean(v, mean) == MkPt(QSub(v.x, mean.x), QSub(v.y, mean.y), QSub(v.z, mean.z), v.w)

\* euler_step with only x and y corrected.
euler_step_xy(nc, dt, dX0, mean, dX, X) ==
    LET sub == Tab([i \in Slots |->
                       IF i < nc
                       THEN MkPt(QSub(dX[i].x, mean.x), QSub(dX[i].y, mean.y), dX[i].z, dX[i].w)
                       ELSE dX[i]])
    IN  [dX |-> sub,
         X |-> Tab([i \in Slots |->
                       IF i < nc THEN PtAdd(dX0[i], PtScale(sub[i], dt)) ELSE X[i]])]

\* euler_step: the new d_dX and the new d_X (the buffer written, d_X1).
euler_step(nc, dt, dX0, mean, dX, X) ==
    LET sub == Tab([i \in Slots |-> IF i < nc THEN SubMean(dX[i], mean) ELSE dX[i]])
    IN  [dX |-> sub,
         X |-> Tab([i \in Slots |->
                       IF i < nc THEN PtAdd(dX0[i], PtScale(sub[i], dt)) ELSE X[i]])]

\* heun_step with the mean of the second stage left in.
heun_step_drift(nc, dt, dX, mean1, dX1, X, old_v) ==
    LET avg == Tab([i \in Slots |-> PtScale(PtAdd(dX[i], dX1[i]), Half)])
    IN  [dX1 |-> dX1,
         X |-> Tab([i \in Slots |->
                       IF i < nc THEN PtAdd(X[i], PtScale(avg[i], dt)) ELSE X[i]]),
         old_v |-> Tab([i \in Slots |->
                       IF i < nc THEN MkF3(avg[i].x, avg[i].y, avg[i].z) ELSE old_v[i]])]

\* heun_step advancing the predicted state d_X1 in place of the original one.
heun_step_predicted(nc, dt, dX, mean1, dX1, X, old_v) ==
    LET sub == Tab([i \in Slots |-> IF i < nc THEN SubMean(dX1[i], mean1) ELSE dX1[i]])
        avg == Tab([i \in Slots |-> PtScale(PtAdd(dX[i], sub[i]), Half)])
    IN  [dX1 |-> sub,
         X |-> Tab([i \in Slots |->
                       IF i < nc THEN PtAdd(d_X1[i], PtScale(avg[i], dt)) ELSE X[i]]),
         old_v |-> Tab([i \in Slots |->
                       IF i < nc THEN MkF3(avg[i].x, avg[i].y, avg[i].z) ELSE old_v[i]])]

\* heun_step storing the derivative of the second stage alone as d_old_v.
heun_step_last_v(nc, dt, dX, mean1, dX1, X, old_v) ==
    LET sub == Tab([i \in Slots |-> IF i < nc THEN SubMean(dX1[i], mean1) ELSE dX1[i]])
        avg == Tab([i \in Slots |-> PtScale(PtAdd(dX[i], sub[i]), Half)])
    IN  [dX1 |-> sub,
         X |-> Tab([i \in Slots |->
                       IF i < nc THEN PtAdd(X[i], PtScale(avg[i], dt)) ELSE X[i]]),
         old_v |-> Tab([i \in Slots |->
                       IF i < nc THEN MkF3(sub[i].x, sub[i].y, sub[i].z) ELSE old_v[i]])]

\* heun_step: the new d_dX1, d_X and d_old_v.
heun_step(nc, dt, dX, mean1, dX1, X, old_v) ==
    LET sub == Tab([i \in Slots |-> IF i < nc THEN SubMean(dX1[i], mean1) ELSE dX1[i]])
        avg == Tab([i \in Slots |-> PtScale(PtAdd(dX[i], sub[i]), Half)])
    IN  [dX1 |-> sub,
         X |-> Tab([i \in Slots |->
                       IF i < nc THEN PtAdd(X[i], PtScale(avg[i], dt)) ELSE X[i]]),
         old_v |-> Tab([i \in Slots |->
                       IF i < nc THEN MkF3(avg[i].x, avg[i].y, avg[i].z) ELSE old_v[i]])]

\* The calls take_step makes in a stage, with the generic forces after the reduction.
StageOrder_gen_late ==
    <<"fill", "compute_pwints", "add_rhs", "reduce", "gen_forces", "step">>

\* The calls take_step makes in each of its two stages, in order; "step" is
\* euler_step in the first stage and heun_step in the second.
StageOrder ==
    <<"fill", "compute_pwints", "gen_forces", "add_rhs", "reduce", "step">>

\* The time step the examples pass.
dt == One

\* gen_calls logs the calls of the take_step under way (or of the last one):
\* its length is the position in take_step.
Stage == (Len(gen_calls) \div Len(StageOrder)) + 1
NextOp == StageOrder[(Len(gen_calls) % Len(StageOrder)) + 1]
Call(op) == [op |-> op, X |-> IF Stage = 1 THEN "d_X" ELSE "d_X1",
             dX |-> IF Stage = 1 THEN "d_dX" ELSE "d_dX1"]
At(op) == pc = "stepping" /\ NextOp = op
StageX == IF Stage = 1 THEN d_X ELSE d_X1
StagedX == IF Stage = 1 THEN d_dX ELSE d_dX1

\* The positions a run starts from: the live points on the x axis, either
\* half a unit apart (neighbours, and next-but-one points at distance
\* exactly 1) or a whole unit apart (no point within distance 1 of another).
StepLayouts(nc) ==
    {[i \in Slots |-> IF i < nc THEN MkPt(Q(i, 2), Zero, Zero, QInt(i % 2)) ELSE PtZero],
     [i \in Slots |-> IF i < nc THEN MkPt(QInt(i), Zero, Zero, QInt(i % 2)) ELSE PtZero]}

\* What cudaMalloc left in d_nNBs and d_sum_v.
Garbage == {0, 3}

StepInit ==
    /\ d_n \in 1 .. n_max
    /\ h_n = d_n
    /\ n = d_n
    /\ d_X \in StepLayouts(d_n)
    /\ d_dX = ZeroPts
    /\ d_old_v = ZeroF3s
    /\ \E g \in Garbage :
          /\ d_sum_v = [i \in Slots |-> MkF3(QInt(g), QInt(g), QInt(g))]
          /\ d_nNBs = [i \in Slots |-> g]
    /\ pw_int = "cutoff"
    /\ pw_calls = NoCalls
    /\ nb_counts = NoCalls
    /\ pc = "idle"
    /\ status = "ok"
    /\ LatticeIdle /\ StepIdle /\ ProlifIdle /\ TilesIdle

stepFrame ==
    /\ UNCHANGED <<h_n, d_n, d_moore_nhood, pw_int, gen_forces, n, X0, status>>
    /\ UNCHANGED latticeVars /\ UNCHANGED prolifVars /\ UNCHANGED tileVars

\* take_step<pw_int>(dt, gen_forces): auto n = get_d_n();
\* (a run passes the same pw_int and gen_forces at every call, as main does)
TakeStep(law, hook) ==
    /\ pc = "idle"
    /\ steps < MaxSteps
    /\ steps = 0 \/ (law = pw_int /\ hook = gen_forces)
    /\ get_d_n_ok
    /\ n' = d_n
    /\ pw_int' = law
    /\ gen_forces' = hook
    /\ gen_calls' = <<>>
    /\ X0' = d_X
    /\ pc' = "stepping"
    /\ UNCHANGED <<h_n, d_n, d_X, d_dX, d_X1, d_dX1, d_old_v, d_sum_v, d_nNBs,
                   d_moore_nhood, pw_calls, nb_counts, mean_dX, steps, status>>
    /\ UNCHANGED latticeVars /\ UNCHANGED prolifVars /\ UNCHANGED tileVars

\* thrust::fill(d_nNBs, d_nNBs + n, 0); thrust::fill(d_sum_v, d_sum_v + n, float3 {0});
StepFill ==
    /\ At("fill")
    /\ d_nNBs' = fill(d_nNBs, n, 0)
    /\ d_sum_v' = fill(d_sum_v, n, F3Zero)
    /\ gen_calls' = Append(gen_calls, Call("fill"))
    /\ UNCHANGED <<d_X, d_dX, d_X1, d_dX1, d_old_v, pw_calls, nb_counts, mean_dX, steps, pc>>
    /\ stepFrame

\* compute_pwints<pw_int>(n, d_X, d_dX, ...) resp. (n, d_X1, d_dX1, ...)
StepComputePwints ==
    /\ At("compute_pwints")
    /\ \E stale \in SUBSET StaleCandidates(n) :
          LET res == compute_tiles(pw_int, n, StageX, StagedX, d_old_v, d_sum_v, d_nNBs, stale)
          IN  /\ IF Stage = 1 THEN d_dX' = res.dX /\ UNCHANGED d_dX1
                              ELSE d_dX1' = res.dX /\ UNCHANGED d_dX
              /\ d_nNBs' = res.nNBs
              /\ d_sum_v' = res.sum_v
              /\ pw_calls' = res.calls
              /\ nb_counts' = res.counted
    /\ gen_calls' = Append(gen_calls, Call("compute_pwints"))
    /\ UNCHANGED <<d_X, d_X1, d_old_v, mean_dX, steps, pc>>
    /\ stepFrame

\* gen_forces(d_X, d_dX) resp. gen_forces(d_X1, d_dX1)
StepGenForces ==
    /\ At("gen_forces")
    /\ IF Stage = 1 THEN d_dX' = GenForce(gen_forces, n, d_X, d_dX) /\ UNCHANGED d_dX1
                    ELSE d_dX1' = GenForce(gen_forces, n, d_X1, d_dX1) /\ UNCHANGED d_dX
    /\ gen_calls' = Append(gen_calls, Call("gen_forces"))
    /\ UNCHANGED <<d_X, d_X1, d_old_v, d_sum_v, d_nNBs, pw_calls, nb_counts, mean_dX, steps, pc>>
    /\ stepFrame

\* add_rhs<<<...>>>(n, d_sum_v, d_nNBs, d_dX) resp. (..., d_dX1)
StepAddRhs ==
    /\ At("add_rhs")
    /\ IF add_rhs_ok(n, d_sum_v, StagedX)
       THEN /\ IF Stage = 1 THEN d_dX' = add_rhs(n, d_sum_v, d_nNBs, d_dX) /\ UNCHANGED d_dX1
                            ELSE d_dX1' = add_rhs(n, d_sum_v, d_nNBs, d_dX1) /\ UNCHANGED d_dX
            /\ gen_calls' = Append(gen_calls, Call("add_rhs"))
            /\ UNCHANGED <<pc, status>>
       ELSE /\ status' = "aborted"
            /\ pc' = "stopped"
            /\ UNCHANGED <<d_dX, d_dX1, gen_calls>>
    /\ UNCHANGED <<h_n, d_n, d_moore_nhood, pw_int, gen_forces, n, X0>>
    /\ UNCHANGED <<d_X, d_X1, d_old_v, d_sum_v, d_nNBs, pw_calls, nb_counts, mean_dX, steps>>
    /\ UNCHANGED latticeVars /\ UNCHANGED prolifVars /\ UNCHANGED tileVars

\* auto mean_dX = thrust::reduce(...)/n; resp. mean_dX1
StepReduce ==
    /\ At("reduce")
    /\ mean_dX' = reduce_mean(StagedX, n)
    /\ gen_calls' = Append(gen_calls, Call("reduce"))
    /\ UNCHANGED <<d_X, d_dX, d_X1, d_dX1, d_old_v, d_sum_v, d_nNBs, pw_calls, nb_counts, steps, pc>>
    /\ stepFrame

\* euler_step<<<...>>>(n, dt, d_X, mean_dX, d_dX, d_X1)
StepEuler ==
    /\ At("step") /\ Stage = 1
    /\ LET res == euler_step(n, dt, d_X, mean_dX, d_dX, d_X1)
       IN  d_dX' = res.dX /\ d_X1' = res.X
    /\ gen_calls' = Append(gen_calls, Call("step"))
    /\ UNCHANGED <<d_X, d_dX1, d_old_v, d_sum_v, d_nNBs, pw_calls, nb_counts, mean_dX, steps, pc>>
    /\ stepFrame

\* heun_step<<<...>>>(n, dt, d_dX, mean_dX1, d_dX1, d_X, d_old_v), and the return.
StepHeun ==
    /\ At("step") /\ Stage = 2
    /\ LET res == heun_step(n, dt, d_dX, mean_dX, d_dX1, d_X, d_old_v)
       IN  d_dX1' = res.dX1 /\ d_X' = res.X /\ d_old_v' = res.old_v
    /\ gen_calls' = Append(gen_calls, Call("step"))
    /\ steps' = steps + 1
    /\ pc' = "idle"
    /\ UNCHANGED <<d_dX, d_X1, d_sum_v, d_nNBs, pw_calls, nb_counts, mean_dX>>
    /\ stepFrame

StepNext ==
    \/ \E law \in PwLaws, hook \in GenForces : TakeStep(law, hook)
    \/ StepFill
    \/ StepComputePwints
    \/ StepGenForces
    \/ StepAddRhs
    \/ StepReduce
    \/ StepEuler
    \/ StepHeun

SpecStep == StepInit /\ [][StepNext]_vars


\* ------------------------------------------------------------ claims on take_step
EulerDone == Len(gen_calls) >= Len(StageOrder)
HeunDone == Len(gen_calls) = 2 * Len(StageOrder)
XYZ(p) == <<p.x, p.y, p.z>>
ZeroXYZ == <<Zero, Zero, Zero>>

\* C3 (as stated): after the PREDICT stage, once euler_step has subtracted
\* the mean, the sum of d_dX over the live entities is zero in every field
\* of the point type, w included.
C3_DriftFreeEveryField == EulerDone => SumPt(d_dX, n) = PtZero

\* C3 (amended): after the PREDICT stage the sum of d_dX over the live
\* entities is zero in x, y and z; the other fields keep the derivative that
\* the pairwise evaluation and the generic forces produced.
C3_DriftFreeXYZ == EulerDone => XYZ(SumPt(d_dX, n)) = ZeroXYZ

C3_Witness ==
    /\ EulerDone /\ n >= 2 /\ gen_forces = "push"
    /\ mean_dX.z # Zero
    /\ SumPt(d_dX, n).w # Zero

\* C4: the derivative used for the position update sums to zero over the
\* live entities in x, y and z: d_dX when euler_step writes d_X1 = d_X +
\* d_dX*dt, and 0.5*(d_dX + d_dX1) when heun_step updates d_X, so that the
\* sum of the positions is the one the step started with.
C4_PositionUpdateDriftFree ==
    /\ EulerDone =>
          XYZ(PtSub(SumPt(d_X1, n), SumPt(X0, n))) = ZeroXYZ
    /\ HeunDone =>
          /\ XYZ(PtScale(PtAdd(SumPt(d_dX, n), SumPt(d_dX1, n)), Half)) = ZeroXYZ
          /\ XYZ(PtSub(SumPt(d_X, n), SumPt(X0, n))) = ZeroXYZ

C4_Witness ==
    /\ HeunDone /\ n >= 2 /\ steps = 1 /\ gen_forces = "push"
    /\ mean_dX.x # Zero
    /\ \E i \in 0 .. n - 1 : d_X[i] # X0[i]

\* C10: in a take_step the generic forces are called once in each stage, on
\* (d_X, d_dX) and then on (d_X1, d_dX1), directly after that stage's
\* compute_pwints on the same buffers and before that stage's reduction;
\* a finished take_step has made exactly two calls.
GenCalls == {k \in 1 .. Len(gen_calls) : gen_calls[k].op = "gen_forces"}
StageOf(k) == ((k - 1) \div Len(StageOrder)) + 1

C10_HookOncePerStage ==
    /\ \A k \in GenCalls :
          /\ k > 1
          /\ gen_calls[k - 1].op = "compute_pwints"
          /\ StageOf(k - 1) = StageOf(k)
          /\ gen_calls[k - 1].dX = gen_calls[k].dX
          /\ gen_calls[k].X = (IF StageOf(k) = 1 THEN "d_X" ELSE "d_X1")
          /\ gen_calls[k].dX = (IF StageOf(k) = 1 THEN "d_dX" ELSE "d_dX1")
    /\ \A k, m \in GenCalls : StageOf(k) = StageOf(m) => k = m
    /\ \A k \in 1 .. Len(gen_calls) :
          gen_calls[k].op = "reduce" =>
              \E m \in GenCalls : m < k /\ StageOf(m) = StageOf(k)
    /\ HeunDone => Cardinality(GenCalls) = 2

C10_Witness ==
    /\ pc = "idle" /\ steps = 1 /\ HeunDone /\ gen_forces = "push"
    /\ Cardinality(GenCalls) = 2


\* ------------------------------------------------------------ the count and proliferate
\* proliferation_rate = 1.386/n_time_steps, as the fraction RateNum/RateDen.
RateNum == 1386
RateDen == 50000000

\* if (i >= *d_n_cells*(1 - proliferation_rate)) return;   (false: the worker goes on)
PassesGuard(i, count) == i * RateDen < count * (RateDen - RateNum)

\* D_ASSERT(*d_n_cells*proliferation_rate <= n_max);
ProliferateAssert(count) == count * RateNum <= n_max * RateDen

\* The threads of proliferate<<<(get_d_n() + 128 - 1)/128, 128>>>, for blocks
\* of PROLIF_BLOCK threads.
Launched(nc) == 0 .. ((nc + PROLIF_BLOCK - 1) \div PROLIF_BLOCK) * PROLIF_BLOCK - 1

\* The state after Solution's constructor: h_n is n_0, whatever it is; the
\* device count is what cudaMalloc left there.
StoreInit ==
    /\ h_n \in 0 .. n_max + 1
    /\ d_n \in 0 .. n_max + 1
    /\ n = 0
    /\ d_X = [i \in Slots |-> MkPt(QInt(i), Zero, Zero, One)]
    /\ d_dX = ZeroPts
    /\ d_old_v = ZeroF3s
    /\ d_sum_v = ZeroF3s
    /\ d_nNBs = ZeroInts
    /\ pw_int = "cutoff"
    /\ pw_calls = NoCalls
    /\ nb_counts = NoCalls
    /\ pc = "host"
    /\ status = "ok"
    /\ LatticeIdle /\ StepIdle /\ ProlifIdle /\ TilesIdle

storeFrame ==
    /\ UNCHANGED <<d_dX, d_old_v, d_sum_v, d_nNBs, d_moore_nhood, pw_int, pw_calls, nb_counts>>
    /\ UNCHANGED latticeVars /\ UNCHANGED stepVars /\ UNCHANGED tileVars

\* A failed assert or D_ASSERT ends the program.
Abort == status' = "aborted" /\ pc' = "stopped"

\* Solution::copy_to_device
CopyToDevice ==
    /\ pc = "host"
    /\ IF h_n <= n_max
       THEN d_n' = h_n /\ UNCHANGED <<pc, status>>
       ELSE Abort /\ UNCHANGED d_n
    /\ UNCHANGED <<h_n, d_X, n>>
    /\ UNCHANGED prolifVars
    /\ storeFrame

\* Solution::copy_to_host: the count is copied, then checked.
CopyToHost ==
    /\ pc = "host"
    /\ h_n' = d_n
    /\ IF d_n <= n_max THEN UNCHANGED <<pc, status>> ELSE Abort
    /\ UNCHANGED <<d_n, d_X, n>>
    /\ UNCHANGED prolifVars
    /\ storeFrame

\* get_d_n(), as take_step and build_lattice call it first.
GetDn ==
    /\ pc = "host"
    /\ IF get_d_n_ok THEN n' = d_n /\ UNCHANGED <<pc, status>> ELSE Abort /\ UNCHANGED n
    /\ UNCHANGED <<h_n, d_n, d_X>>
    /\ UNCHANGED prolifVars
    /\ storeFrame

\* proliferate<<<(bolls.get_d_n() + 128 - 1)/128, 128>>>(...)
LaunchProliferate ==
    /\ pc = "host"
    /\ steps < MaxSteps
    /\ IF get_d_n_ok
       THEN /\ n' = d_n
            /\ w_pc' = [i \in Launched(d_n) |-> "guard"]
            /\ w_n' = [i \in Launched(d_n) |-> -1]
            /\ w_writes' = [i \in Launched(d_n) |-> {}]
            /\ pc' = "kernel"
            /\ UNCHANGED status
       ELSE Abort /\ UNCHANGED <<n, w_pc, w_n, w_writes>>
    /\ UNCHANGED <<h_n, d_n, d_X, oob_writes>>
    /\ storeFrame

\* Worker i up to the atomicAdd: the assertion, the guard on the count as it
\* is now, and the decision to divide (the random draw, or the neighbour counts).
WorkerGuard(i) ==
    /\ pc = "kernel"
    /\ w_pc[i] = "guard"
    /\ IF ~ProliferateAssert(d_n)
       THEN Abort /\ UNCHANGED w_pc
       ELSE /\ IF PassesGuard(i, d_n)
               THEN \E divides \in BOOLEAN :
                       w_pc' = [w_pc EXCEPT ![i] = IF divides THEN "alloc" ELSE "done"]
               ELSE w_pc' = [w_pc EXCEPT ![i] = "done"]
            /\ UNCHANGED <<pc, status>>
    /\ UNCHANGED <<h_n, d_n, d_X, n, oob_writes, w_n, w_writes>>
    /\ storeFrame

\* auto n = atomicAdd(d_n_cells, 1);
WorkerAlloc(i) ==
    /\ pc = "kernel"
    /\ w_pc[i] = "alloc"
    /\ w_n' = [w_n EXCEPT ![i] = d_n]
    /\ d_n' = d_n + 1
    /\ w_pc' = [w_pc EXCEPT ![i] = "child"]
    /\ UNCHANGED <<h_n, d_X, n, pc, status, oob_writes, w_writes>>
    /\ storeFrame

\* What a read of d_X[i].w gives: the field, or for i >= n_max whatever lies
\* behind the array.
ReadW(i) == IF i < n_max THEN {d_X[i].w} ELSE {Zero, One}

\* d_X[n].x = ...; d_X[n].y = ...; d_X[n].z = ...; d_X[n].w = d_X[i].w/2;
\* (theta = 0: the daughter lies mean_distance/4 along z)
WorkerChild(i) ==
    /\ pc = "kernel"
    /\ w_pc[i] = "child"
    /\ LET c == w_n[i]
       IN  /\ IF c < n_max
              THEN /\ \E w \in ReadW(i) :
                        d_X' = [d_X EXCEPT ![c] =
                                   MkPt(IF i < n_max THEN d_X[i].x ELSE Zero,
                                        IF i < n_max THEN d_X[i].y ELSE Zero,
                                        QAdd(IF i < n_max THEN d_X[i].z ELSE Zero, <<1, 4>>),
                                        QMul(w, Half))]
                   /\ UNCHANGED oob_writes
              ELSE /\ oob_writes' = oob_writes \cup {c}
                   /\ UNCHANGED d_X
           /\ w_writes' = [w_writes EXCEPT ![i] = @ \cup {c}]
    /\ w_pc' = [w_pc EXCEPT ![i] = "halve"]
    /\ UNCHANGED <<h_n, d_n, n, pc, status, w_n>>
    /\ storeFrame

\* d_X[i].w = d_X[i].w/2;
WorkerHalve(i) ==
    /\ pc = "kernel"
    /\ w_pc[i] = "halve"
    /\ IF i < n_max
       THEN /\ d_X' = [d_X EXCEPT ![i].w = QMul(@, Half)]
            /\ UNCHANGED oob_writes
       ELSE /\ oob_writes' = oob_writes \cup {i}
            /\ UNCHANGED d_X
    /\ w_writes' = [w_writes EXCEPT ![i] = @ \cup {i}]
    /\ w_pc' = [w_pc EXCEPT ![i] = "done"]
    /\ UNCHANGED <<h_n, d_n, n, pc, status, w_n>>
    /\ storeFrame

\* The kernel has run to its end; the host goes on.
KernelEnd ==
    /\ pc = "kernel"
    /\ \A i \in DOMAIN w_pc : w_pc[i] = "done"
    /\ pc' = "host"
    /\ steps' = steps + 1
    /\ UNCHANGED <<h_n, d_n, d_X, n, status>>
    /\ UNCHANGED <<d_dX, d_old_v, d_sum_v, d_nNBs, d_moore_nhood, pw_int, pw_calls, nb_counts>>
    /\ UNCHANGED <<d_X1, d_dX1, gen_forces, gen_calls, mean_dX, X0>>
    /\ UNCHANGED latticeVars /\ UNCHANGED prolifVars /\ UNCHANGED tileVars

StoreNext ==
    \/ CopyToDevice
    \/ CopyToHost
    \/ GetDn
    \/ LaunchProliferate
    \/ \E i \in DOMAIN w_pc : WorkerGuard(i)
    \/ \E i \in DOMAIN w_pc : WorkerAlloc(i)
    \/ \E i \in DOMAIN w_pc : WorkerChild(i)
    \/ \E i \in DOMAIN w_pc : WorkerHalve(i)
    \/ KernelEnd

SpecStore == StoreInit /\ [][StoreNext]_vars

\* C5: the counts stay within 0 .. n_max while the program runs, whatever
\* was constructed, copied or grown, and no slot of d_X at or beyond n_max
\* is written.
C5_WithinCapacity ==
    /\ oob_writes = {}
    /\ (status = "ok" /\ steps > 0) => (0 <= d_n /\ d_n <= n_max)

\* C6: in a launch of proliferate the workers that divide hold distinct
\* slots, the slots handed out are n .. d_n - 1 for the count n at launch,
\* the count has grown by the number of dividing workers, and no slot
\* handed out in the launch is written by two workers.
Spawned == {i \in DOMAIN w_n : w_n[i] # -1}
NewSlots == n .. d_n - 1

C6_DistinctNewSlots ==
    pc = "kernel" =>
        /\ \A i, j \in Spawned : i # j => w_n[i] # w_n[j]
        /\ {w_n[i] : i \in Spawned} = NewSlots
        /\ d_n = n + Cardinality(Spawned)
        /\ \A i, j \in DOMAIN w_writes :
              i # j => (w_writes[i] \cap w_writes[j] \cap NewSlots = {})

\* The workers that have passed the guard and gone on to divide.
Dividing == {i \in DOMAIN w_pc : w_pc[i] \in {"alloc", "child", "halve"}} \cup Spawned

\* C21: in a launch of proliferate, whatever the interleaving, every worker
\* that passes the guard and divides has an index below the count n at
\* launch: it divides a point that was live before the launch, never a
\* slot that a worker of the same launch is creating.
C21_OnlyOldPointsDivide ==
    pc = "kernel" => \A i \in Dividing : i < n


\* ------------------------------------------------------------ claims on the stages of take_step
LastOp == IF gen_calls = <<>> THEN "none" ELSE gen_calls[Len(gen_calls)].op
\* add_rhs of the stage under way has run and its accumulators still stand.
AfterAddRhs == pc = "stepping" /\ LastOp \in {"add_rhs", "reduce"}
\* No other live point lies within distance 1 of point i in the state X.
Isolated(X, i) ==
    \A j \in 0 .. n - 1 : j # i => ~QLt(Norm2(PtSub(X[i], X[j])), One)
\* What add_rhs adds to d_dX[i] in x, y, z.
DiffusionTerm(i) ==
    MkF3(QDiv(d_sum_v[i].x, QInt(d_nNBs[i])), QDiv(d_sum_v[i].y, QInt(d_nNBs[i])),
         QDiv(d_sum_v[i].z, QInt(d_nNBs[i])))

\* C11 (as stated): for a live point with no other live point within
\* distance 1, the term add_rhs adds to its derivative is zero, in both
\* stages of every take_step, and no error is raised.
C11_IsolatedNoDiffusion ==
    AfterAddRhs =>
        /\ status = "ok"
        /\ \A i \in 0 .. n - 1 : Isolated(StageX, i) => DiffusionTerm(i) = F3Zero

\* C11 (amended): for a live point with no other live point within distance
\* 1, d_nNBs is 1 (the point itself) and the term add_rhs adds is the
\* point's own previous velocity d_old_v[i], without a division by zero or
\* an error: zero in the first take_step, in which the points stay where
\* they are when all are isolated and neither pw_int nor gen_forces acts.
C11_IsolatedOwnVelocity ==
    /\ AfterAddRhs =>
          /\ status = "ok"
          /\ \A i \in 0 .. n - 1 :
                Isolated(StageX, i) =>
                    /\ d_nNBs[i] = 1
                    /\ DiffusionTerm(i) = d_old_v[i]
                    /\ steps = 0 => DiffusionTerm(i) = F3Zero
    /\ (HeunDone /\ steps = 1 /\ gen_forces = "none" /\ pw_int = "cutoff"
           /\ \A i \in 0 .. n - 1 : Isolated(X0, i))
          => \A i \in 0 .. n - 1 : d_X[i] = X0[i]

\* The second take_step of a run, at a point that is isolated and moved in
\* the first one.
C11_Witness ==
    /\ AfterAddRhs /\ steps = 1 /\ n >= 2
    /\ \E i \in 0 .. n - 1 :
          Isolated(StageX, i) /\ d_old_v[i] # F3Zero /\ DiffusionTerm(i) = d_old_v[i]


\* The calls made so far follow the order of the two stages, each call on
\* its stage's buffers.
InStageOrder ==
    /\ Len(gen_calls) <= 2 * Len(StageOrder)
    /\ \A k \in 1 .. Len(gen_calls) :
          /\ gen_calls[k].op = StageOrder[((k - 1) % Len(StageOrder)) + 1]
          /\ gen_calls[k].X = (IF StageOf(k) = 1 THEN "d_X" ELSE "d_X1")
          /\ gen_calls[k].dX = (IF StageOf(k) = 1 THEN "d_dX" ELSE "d_dX1")

\* C15: a take_step makes the calls of PREDICT and then those of CORRECT,
\* once each, and returns.  Until heun_step runs d_X is the state the step
\* started from; euler_step leaves d_X1 = d_X + dt * d_dX for the live
\* points; heun_step leaves d_X = original d_X + dt * 0.5 * (d_dX + d_dX1)
\* for the live points; d_X and d_X1 at indices >= n are never written.
C15_PredictThenCorrect ==
    /\ InStageOrder
    /\ pc = "stepping" => Len(gen_calls) < 2 * Len(StageOrder) /\ d_X = X0
    /\ (pc = "idle" /\ steps > 0) => HeunDone
    /\ (pc = "stepping" /\ EulerDone) =>
          \A i \in 0 .. n - 1 : d_X1[i] = PtAdd(X0[i], PtScale(d_dX[i], dt))
    /\ HeunDone =>
          \A i \in 0 .. n - 1 :
              d_X[i] = PtAdd(X0[i], PtScale(PtScale(PtAdd(d_dX[i], d_dX1[i]), Half), dt))
    /\ \A i \in Slots : i >= n => d_X[i] = PtZero /\ d_X1[i] = PtZero

\* A second take_step of fewer than n_max points has returned: the final
\* state differs from the original one and from the predicted one.
C15_Witness ==
    /\ pc = "idle" /\ steps = 2 /\ HeunDone /\ n >= 2 /\ n < n_max
    /\ \E i \in 0 .. n - 1 : d_X[i] # X0[i] /\ d_X[i] # d_X1[i] /\ d_X1[i] # X0[i]

RECURSIVE Counted(_, _)
\* What the increments of the last evaluation for point i, nb_counts[i, j]
\* for j < m, add up to: [nNBs, sum_v].
Counted(i, m) ==
    IF m = 0 THEN [nNBs |-> 0, sum_v |-> F3Zero]
    ELSE LET acc == Counted(i, m - 1)
             c == QInt(nb_counts[<<i, m - 1>>])
             v == d_old_v[m - 1]
         IN  [nNBs |-> acc.nNBs + nb_counts[<<i, m - 1>>],
              sum_v |-> F3Add(acc.sum_v, MkF3(QMul(v.x, c), QMul(v.y, c), QMul(v.z, c)))]

\* C16: in both stages of every take_step, d_nNBs[i] and d_sum_v[i] of the
\* live points are zero when compute_pwints starts; from the end of the
\* evaluation to add_rhs, which runs after fill and compute_pwints of the
\* same stage, they hold exactly what that evaluation added, with nothing
\* left in from the other stage, an earlier step or the allocation; where
\* the tile race cannot occur that is the number of points within distance
\* 1 in that stage's state.
C16_AccumulatorsPerStage ==
    /\ At("compute_pwints") =>
          \A i \in 0 .. n - 1 : d_nNBs[i] = 0 /\ d_sum_v[i] = F3Zero
    /\ (At("gen_forces") \/ At("add_rhs")) =>
          /\ \A i \in 0 .. n - 1 :
                /\ d_nNBs[i] = Counted(i, n).nNBs
                /\ d_sum_v[i] = Counted(i, n).sum_v
          /\ StaleCandidates(n) = {} =>
                \A i \in 0 .. n - 1 :
                    d_nNBs[i] = Cardinality({j \in 0 .. n - 1 :
                                    QLt(Norm2(PtSub(StageX[i], StageX[j])), One)})
    /\ At("add_rhs") =>
          /\ gen_calls[Len(gen_calls) - 2].op = "fill"
          /\ gen_calls[Len(gen_calls) - 1].op = "compute_pwints"
          /\ StageOf(Len(gen_calls) - 2) = Stage

\* add_rhs is about to run in the second stage of a second take_step of
\* n_max points, some with a neighbour and some with a velocity sum to add.
C16_Witness ==
    /\ At("add_rhs") /\ Stage = 2 /\ steps = 1 /\ n = n_max
    /\ \E i \in 0 .. n - 1 : d_nNBs[i] >= 2
    /\ \E i \in 0 .. n - 1 : d_sum_v[i] # F3Zero

\* The averaged derivative 0.5 * (d_dX[i] + d_dX1[i]) of a finished step.
AvgdX(i) == PtScale(PtAdd(d_dX[i], d_dX1[i]), Half)

\* C17: d_old_v is zero in every slot until the first take_step ends; only
\* heun_step, the last call of a take_step, changes it, so both evaluations
\* of a step read what the step before stored; heun_step leaves in it, for
\* every live point, the x, y, z of the averaged derivative
\* 0.5 * (d_dX + d_dX1) by which it moved d_X, and leaves the slots at
\* indices >= n as they were.
C17_OldVelocityWrittenByHeun ==
    /\ [](/\ steps = 0 => d_old_v = ZeroF3s
          /\ \A i \in Slots : i >= n => d_old_v[i] = F3Zero
          /\ HeunDone =>
                \A i \in 0 .. n - 1 :
                    /\ d_old_v[i] = MkF3(AvgdX(i).x, AvgdX(i).y, AvgdX(i).z)
                    /\ d_X[i] = PtAdd(X0[i], PtScale(AvgdX(i), dt)))
    /\ [][d_old_v' # d_old_v => At("step") /\ Stage = 2 /\ pc' = "idle"]_vars

\* A second take_step has ended and has stored a non-zero velocity that
\* differs from the derivative of its second stage.
C17_Witness ==
    /\ pc = "idle" /\ steps = 2 /\ HeunDone /\ n >= 2
    /\ \E i \in 0 .. n - 1 :
          /\ d_old_v[i] # F3Zero
          /\ d_old_v[i] # MkF3(d_dX1[i].x, d_dX1[i].y, d_dX1[i].z)

\* C18: for a fixed live count n, no call of any take_step, whatever the
\* interaction function and the generic forces, changes the sum of x, of y
\* or of z of d_X over the live points: after any sequence of take_step
\* calls the three sums are what they were before the first call.
C18_CentreOfMassFixed ==
    [][XYZ(SumPt(d_X', n')) = XYZ(SumPt(d_X, n))]_vars

\* Two take_step calls with generic forces have moved points away from a
\* centre of mass that is not the origin.
C18_Witness ==
    /\ pc = "idle" /\ steps = 2 /\ gen_forces = "push" /\ n >= 2
    /\ XYZ(SumPt(d_X, n)) # ZeroXYZ
    /\ mean_dX.x # Zero
    /\ \E i \in 0 .. n - 1 : d_X[i].x # X0[i].x /\ X0[i].x # QInt(i) /\ X0[i].x # Q(i, 2)

\* ------------------------------------------------------------ claims on the lattice
\* The three grid coordinates compute_cube_ids combines into a point's id.
GridCoords(p, cube_size) ==
    <<QFloor(QDiv(p.x, cube_size)) + LATTICE_SIZE \div 2,
      QFloor(QDiv(p.y, cube_size)) + LATTICE_SIZE \div 2,
      QFloor(QDiv(p.z, cube_size)) + LATTICE_SIZE \div 2>>

InDomain(p, cube_size) ==
    \A a \in 1 .. 3 : GridCoords(p, cube_size)[a] \in 0 .. LATTICE_SIZE - 1

\* C12: a build that completes has stored, for the cube size it was called
\* with, the id of a cube of the lattice for every live point, and each of
\* the point's three grid coordinates lies in 0 .. LATTICE_SIZE-1: a build
\* over a point with a coordinate outside that range fails instead.
C12_OutOfDomainFails ==
    LatticeBuilt =>
        \E cs \in CubeSizes :
            \A k \in Live :
                /\ d_cube_id[k] = CubeId(d_X[d_cell_id[k]], cs)
                /\ InDomain(d_X[d_cell_id[k]], cs)


\* C14: in compute_lattice_pwints every index d_cube_id[i] + d_moore_nhood[j]
\* used to read d_cube_start and d_cube_end lies in 0 .. N_CUBES-1, for every
\* live point (all hold asserted ids) and every one of the 27 offsets.
C14_NeighbourIndexInRange ==
    pc = "lattice_done" =>
        \A i \in Live : \A j \in 0 .. 26 :
            d_cube_id[i] + d_moore_nhood[j] \in Cubes

\* The offsets of a cube and its 26 geometric neighbours in the linear index.
MooreOffsets ==
    {dx + dy * LATTICE_SIZE + dz * LATTICE_SIZE * LATTICE_SIZE :
        dx \in -1 .. 1, dy \in -1 .. 1, dz \in -1 .. 1}

\* C19: the 27 entries of d_moore_nhood are pairwise distinct and are
\* exactly the offsets dx + dy*LATTICE_SIZE + dz*LATTICE_SIZE^2 with dx, dy,
\* dz in {-1, 0, 1}, before and after every build and evaluation.
C19_MooreOffsetsFixed ==
    /\ DOMAIN d_moore_nhood = 0 .. 26
    /\ \A a, b \in 0 .. 26 : a # b => d_moore_nhood[a] # d_moore_nhood[b]
    /\ {d_moore_nhood[j] : j \in 0 .. 26} = MooreOffsets
    /\ Cardinality(MooreOffsets) = 27

\* A lattice evaluation has used the offsets: the cube itself is among
\* them, and so is the neighbour one cube up in x, y and z.
C19_Witness ==
    /\ pc = "lattice_done" /\ n = n_max
    /\ d_moore_nhood[1] = 0
    /\ d_moore_nhood[26] = 1 + LATTICE_SIZE + LATTICE_SIZE * LATTICE_SIZE

\* C20: when add_rhs runs after an evaluation by either evaluator, every
\* live point has been counted as its own neighbour, so d_nNBs[i] >= 1,
\* and the quotients d_sum_v[i] / d_nNBs[i] it adds are numbers, not the
\* result of a division by zero.
C20_CountsItself ==
    /\ pc \in {"tiles_done", "lattice_done", "rhs_done"} =>
          \A i \in Live : d_nNBs[i] >= 1 /\ nb_counts[<<i, i>>] >= 1
    /\ pc = "rhs_done" =>
          /\ status = "ok"
          /\ \A i \in Live :
                ~IsNaN(d_dX[i].x) /\ ~IsNaN(d_dX[i].y) /\ ~IsNaN(d_dX[i].z)

\* add_rhs has run after a lattice evaluation in which one point had only
\* itself as neighbour and another point had more.
C20_Witness ==
    /\ pc = "rhs_done" /\ was_filled # {} /\ n = n_max
    /\ \E i, j \in Live : d_nNBs[i] = 1 /\ d_nNBs[j] >= 2

\* ------------------------------------------------------------ builds over changing positions
\* The positions the builds run over: the centre cube and its neighbour in
\* x (one and the same cube for cube size 3/2).
BuildPts == {MkPt(Zero, Zero, Zero, Zero), MkPt(One, Zero, Zero, Zero)}

BuildsInit ==
    /\ d_n \in 1 .. n_max
    /\ h_n = d_n
    /\ n = d_n
    /\ d_X \in [Slots -> BuildPts]
    /\ \A i \in Slots : i >= d_n => d_X[i] = MkPt(Zero, Zero, Zero, Zero)
    /\ d_dX = ZeroPts
    /\ d_old_v = ZeroF3s
    /\ d_sum_v = ZeroF3s
    /\ d_nNBs = ZeroInts
    /\ pw_int = "none"
    /\ pw_calls = NoCalls
    /\ nb_counts = NoCalls
    /\ pc = "ready"
    /\ status = "ok"
    /\ LatticeIdle /\ StepIdle /\ ProlifIdle /\ TilesIdle

\* The steps taken between two builds have moved live point i to p.
MovePoint(i, p) ==
    /\ pc = "built"
    /\ i < n
    /\ p # d_X[i]
    /\ d_X' = [d_X EXCEPT ![i] = p]
    /\ pc' = "ready"
    /\ UNCHANGED <<h_n, d_n, d_dX, d_old_v, d_sum_v, d_nNBs, d_moore_nhood,
                   pw_int, pw_calls, nb_counts, n, status>>
    /\ UNCHANGED latticeVars /\ UNCHANGED stepVars /\ UNCHANGED prolifVars
    /\ UNCHANGED tileVars

BuildsNext ==
    \/ \E cube_size \in CubeSizes : BuildLattice(cube_size)
    \/ \E i \in Slots, p \in BuildPts : MovePoint(i, p)

SpecBuilds == BuildsInit /\ [][BuildsNext]_vars

\* The cubes no live point has been sorted into by the last build.
EmptyCubes == {c \in Cubes : \A k \in Live : d_cube_id[k] # c}

\* C13: after every build, whatever the builds before it left, every cube
\* that holds no live point has d_cube_start = -1 and d_cube_end = -2, and
\* the scan k = d_cube_start[c] .. d_cube_end[c] of compute_lattice_pwints
\* over it is empty.
C13_EmptyBucketsReset ==
    pc = "built" =>
        \A c \in EmptyCubes :
            /\ d_cube_start[c] = -1
            /\ d_cube_end[c] = -2
            /\ CubeRange(c, d_cube_start, d_cube_end, <<0, n - 1>>) = {}

\* A build that leaves empty a cube an earlier build had left non-empty.
C13_Witness ==
    /\ pc = "built"
    /\ \E c \in was_filled \cap EmptyCubes : d_cube_start[c] = -1 /\ d_cube_end[c] = -2

====
